---- MODULE Spec2Model ----
(***************************************************************************)
(* myshoes-mcp-server: the tool handlers of cmd/myshoes-mcp-server/main.go *)
(* as a state machine.  A call is received by the transport, its handler   *)
(* validates the input and hands one request to the myshoes client, the    *)
(* remote API answers, and the handler encodes the answer.                 *)
(*                                                                         *)
(* Strings whose content the handlers inspect (resource_type, scope, the   *)
(* optional fields) are sequences of one-character strings, so that        *)
(* fmt.Sprintf, %q and the JSON string decoder are computed, not assumed.  *)
(* An optional value is a sequence of length 0 (absent / nil) or 1.        *)
(***************************************************************************)
EXTENDS Naturals, Sequences, FiniteSets

VARIABLES calls, remote, issued, server

vars == <<calls, remote, issued, server>>

-----------------------------------------------------------------------------
(* Bounds *)

\* call slots the transport may run concurrently (SpecConc)
MaxInFlight == 3
\* calls issued one after the other (Spec)
MaxCalls == 2

-----------------------------------------------------------------------------
(* Characters and strings *)

DQ == "\""
BS == "\\"
LF == "\n"
TAB == "\t"

\* a rune outside the table below, produced by a \u escape
OtherRune == "<rune>"

ControlChars == {LF, TAB}

WhiteSpace == {" ", LF, TAB}

\* printable ASCII, code 32 + (index - 1)
AsciiTable ==
  << " ", "!", DQ, "#", "$", "%", "&", "'", "(", ")", "*", "+", ",", "-", ".", "/",
     "0", "1", "2", "3", "4", "5", "6", "7", "8", "9", ":", ";", "<", "=", ">", "?",
     "@", "A", "B", "C", "D", "E", "F", "G", "H", "I", "J", "K", "L", "M", "N", "O",
     "P", "Q", "R", "S", "T", "U", "V", "W", "X", "Y", "Z", "[", BS, "]", "^", "_",
     "<grave>", "a", "b", "c", "d", "e", "f", "g", "h", "i", "j", "k", "l", "m", "n", "o",
     "p", "q", "r", "s", "t", "u", "v", "w", "x", "y", "z", "{", "|", "}", "~" >>

CharOf(code) ==
  IF code >= 32 /\ code <= 126 THEN AsciiTable[code - 31]
  ELSE IF code = 10 THEN LF
  ELSE IF code = 9 THEN TAB
  ELSE OtherRune

HexDigits ==
  {"0", "1", "2", "3", "4", "5", "6", "7", "8", "9",
   "a", "b", "c", "d", "e", "f", "A", "B", "C", "D", "E", "F"}

HexVal(ch) ==
  CASE ch = "0" -> 0 [] ch = "1" -> 1 [] ch = "2" -> 2 [] ch = "3" -> 3
    [] ch = "4" -> 4 [] ch = "5" -> 5 [] ch = "6" -> 6 [] ch = "7" -> 7
    [] ch = "8" -> 8 [] ch = "9" -> 9
    [] ch \in {"a", "A"} -> 10 [] ch \in {"b", "B"} -> 11
    [] ch \in {"c", "C"} -> 12 [] ch \in {"d", "D"} -> 13
    [] ch \in {"e", "E"} -> 14 [] ch \in {"f", "F"} -> 15

\* s occurs in t as a contiguous run (strings.Contains)
Contains(t, s) ==
  \E i \in 0..(Len(t) - Len(s)) : SubSeq(t, i + 1, i + Len(s)) = s

\* fmt.Sprintf of s between two quote bytes: the bytes of s as they are, nothing escaped
SprintfQuoted(s) == <<DQ>> \o s \o <<DQ>>

\* fmt's %q: a Go string literal, quote and backslash and control bytes escaped
RECURSIVE GoEscape(_)
GoEscape(s) ==
  IF s = <<>> THEN <<>>
  ELSE LET ch == Head(s) IN
       (CASE ch = DQ -> <<BS, DQ>>
          [] ch = BS -> <<BS, BS>>
          [] ch = LF -> <<BS, "n">>
          [] ch = TAB -> <<BS, "t">>
          [] OTHER -> <<ch>>) \o GoEscape(Tail(s))

SprintfQ(s) == <<DQ>> \o GoEscape(s) \o <<DQ>>

-----------------------------------------------------------------------------
(* JSON strings *)

RECURSIVE AllWhiteSpace(_)
AllWhiteSpace(b) ==
  \/ b = <<>>
  \/ Head(b) \in WhiteSpace /\ AllWhiteSpace(Tail(b))

\* The body of a JSON string from position i of b (after the opening quote),
\* acc the runes decoded so far: the value when the closing quote ends the
\* input (white space aside), an error otherwise.
RECURSIVE DecodeStringFrom(_, _, _)
DecodeStringFrom(b, i, acc) ==
  IF i > Len(b) THEN [ok |-> FALSE, val |-> <<>>]
  ELSE LET ch == b[i] IN
    IF ch = DQ
      THEN IF AllWhiteSpace(SubSeq(b, i + 1, Len(b)))
             THEN [ok |-> TRUE, val |-> acc]
             ELSE [ok |-> FALSE, val |-> <<>>]
    ELSE IF ch \in ControlChars THEN [ok |-> FALSE, val |-> <<>>]
    ELSE IF ch /= BS THEN DecodeStringFrom(b, i + 1, Append(acc, ch))
    ELSE IF i + 1 > Len(b) THEN [ok |-> FALSE, val |-> <<>>]
    ELSE LET e == b[i + 1] IN
      IF e \in {DQ, BS, "/"} THEN DecodeStringFrom(b, i + 2, Append(acc, e))
      ELSE IF e = "n" THEN DecodeStringFrom(b, i + 2, Append(acc, LF))
      ELSE IF e = "t" THEN DecodeStringFrom(b, i + 2, Append(acc, TAB))
      ELSE IF e \in {"b", "f", "r"} THEN DecodeStringFrom(b, i + 2, Append(acc, OtherRune))
      ELSE IF e = "u"
        THEN IF i + 5 <= Len(b) /\ \A k \in 2..5 : b[i + k] \in HexDigits
               THEN DecodeStringFrom(b, i + 6, Append(acc,
                      CharOf(4096 * HexVal(b[i + 2]) + 256 * HexVal(b[i + 3])
                             + 16 * HexVal(b[i + 4]) + HexVal(b[i + 5]))))
               ELSE [ok |-> FALSE, val |-> <<>>]
      ELSE [ok |-> FALSE, val |-> <<>>]

\* json.Unmarshal of the bytes b into a string
JsonUnmarshalString(b) ==
  IF b = <<>> \/ Head(b) /= DQ THEN [ok |-> FALSE, val |-> <<>>]
  ELSE DecodeStringFrom(b, 2, <<>>)

\* json.Marshal of a string: quote, backslash and control bytes escaped
RECURSIVE JsonEscape(_)
JsonEscape(s) ==
  IF s = <<>> THEN <<>>
  ELSE LET ch == Head(s) IN
       (CASE ch = DQ -> <<BS, DQ>>
          [] ch = BS -> <<BS, BS>>
          [] ch = LF -> <<BS, "n">>
          [] ch = TAB -> <<BS, "t">>
          [] ch = "<" -> <<BS, "u", "0", "0", "3", "c">>
          [] ch = ">" -> <<BS, "u", "0", "0", "3", "e">>
          [] ch = "&" -> <<BS, "u", "0", "0", "2", "6">>
          [] OTHER -> <<ch>>) \o JsonEscape(Tail(s))

JsonMarshalString(s) == <<DQ>> \o JsonEscape(s) \o <<DQ>>

-----------------------------------------------------------------------------
(* Targets and resource types *)

nano == <<"n", "a", "n", "o">>
micro == <<"m", "i", "c", "r", "o">>
small == <<"s", "m", "a", "l", "l">>
medium == <<"m", "e", "d", "i", "u", "m">>
large == <<"l", "a", "r", "g", "e">>
xlarge == <<"x">> \o large
xlarge2 == <<"2">> \o xlarge
xlarge3 == <<"3">> \o xlarge
xlarge4 == <<"4">> \o xlarge

\* the enumeration the tools document for resource_type
ResourceTypes ==
  {nano, micro, small, medium, large, xlarge, xlarge2, xlarge3, xlarge4}

\* the zero value of the client's resource type
ResourceTypeUnknown == <<>>

\* The strict decoder of the enumeration (the client library's, not part of
\* this repository's sources): a string is a resource type iff it is one of
\* the literals.
IsResourceType(s) == s \in ResourceTypes

\* identifiers the remote API may know
TargetIDs == {"t1", "t2", "t3"}

NoID == ""

helloWorld == <<"h", "w">>
newRepo == <<"o", "/", "r">>
providerURL == <<"p">>
newProviderURL == <<"u">>
runner == <<"r">>

\* the target the remote API starts with
testTarget ==
  [uuid |-> "t1", scope |-> helloWorld, resource_type |-> nano,
   provider_url |-> providerURL]

-----------------------------------------------------------------------------
(* Errors, log records, results *)

\* An error: the segments of its message, outermost first (Error() joins them
\* with ": "), and the %q-quoted literal its message holds, if any.
NewError(text) == [text |-> <<text>>, lit |-> <<>>]

\* the cause dropped: one generic message for every failure of an operation
WrapErrorGeneric(prefix, e) == [text |-> <<prefix>>, lit |-> e.lit]

\* fmt.Errorf(prefix + ": %w", e)
WrapError(prefix, e) == [text |-> <<prefix>> \o e.text, lit |-> e.lit]

ErrNotFound == NewError("target not found")
ErrScopeMustBeSet == NewError("scope must be set")
ErrTransport == NewError("transport failure")
ErrMarshal == NewError("marshal error")
ErrUnmarshal == NewError("unmarshal error")

\* logger.Warn(msg, slog.String("error", err.Error()))
WarnRecord(msg, e) == [level |-> "WARN", msg |-> msg, error |-> e.text]

\* &mcp.CallToolResult{Content: []mcp.Content{&mcp.TextContent{Text: text}}}
TextResult(text) == [content |-> <<text>>]

-----------------------------------------------------------------------------
(* Arguments and typed inputs *)

\* The argument bundle of a call as the transport delivers it: a field is
\* absent (<<>>) or present with a string (<<s>>).
NoArgs ==
  [target_id |-> NoID, scope |-> <<>>, resource_type |-> <<>>,
   provider_url |-> <<>>, runner_user |-> <<>>]

\* decoding an argument into a Go string field: an absent field is ""
FieldOf(opt) == IF opt = <<>> THEN <<>> ELSE opt[1]

DecodeGetTargetInput(args) == [TargetID |-> args.target_id]

DecodeCreateTargetInput(args) ==
  [Scope |-> FieldOf(args.scope),
   ResourceType |-> FieldOf(args.resource_type),
   ProviderURL |-> FieldOf(args.provider_url),
   RunnerUser |-> FieldOf(args.runner_user)]

DecodeUpdateTargetInput(args) ==
  [TargetID |-> args.target_id,
   ResourceType |-> FieldOf(args.resource_type),
   ProviderURL |-> FieldOf(args.provider_url)]

DecodeDeleteTargetInput(args) == [TargetID |-> args.target_id]

-----------------------------------------------------------------------------
(* Validation: from the typed input to the client's parameters *)

\* web.TargetCreateParam{}
ZeroParam ==
  [Scope |-> <<>>, ResourceType |-> ResourceTypeUnknown,
   ProviderURL |-> <<>>, RunnerUser |-> <<>>]

\* quoted := fmt.Sprintf of the literal between quotes; json.Unmarshal of it
\* into the resource type
UnmarshalResourceType(literal) ==
  LET d == JsonUnmarshalString(SprintfQuoted(literal)) IN
  IF d.ok /\ IsResourceType(d.val)
    THEN [ok |-> TRUE, val |-> d.val]
    ELSE [ok |-> FALSE, val |-> ResourceTypeUnknown]

\* fmt.Errorf("invalid resource_type %q: %w", literal, err)
InvalidResourceType(literal) ==
  [text |-> <<"invalid resource_type">> \o ErrUnmarshal.text,
   lit |-> SprintfQ(literal)]

\* if s != "" { p = &s }
PtrIfSet(s) == IF s /= <<>> THEN <<s>> ELSE <<>>

\* createTargetHandler with the decoded resource type never stored
CreateTargetParamNoType(input) ==
  LET rt == UnmarshalResourceType(input.ResourceType) IN
  IF ~rt.ok
    THEN [param |-> ZeroParam,
          err |-> <<InvalidResourceType(input.ResourceType)>>]
    ELSE [param |-> [Scope |-> input.Scope,
                    ResourceType |-> ResourceTypeUnknown,
                    ProviderURL |-> PtrIfSet(input.ProviderURL),
                    RunnerUser |-> PtrIfSet(input.RunnerUser)],
          err |-> <<>>]

\* createTargetHandler up to the client call
CreateTargetParam(input) ==
  LET rt == UnmarshalResourceType(input.ResourceType) IN
  IF ~rt.ok
    THEN [param |-> ZeroParam,
          err |-> <<InvalidResourceType(input.ResourceType)>>]
    ELSE [param |-> [Scope |-> input.Scope,
                    ResourceType |-> rt.val,
                    ProviderURL |-> PtrIfSet(input.ProviderURL),
                    RunnerUser |-> PtrIfSet(input.RunnerUser)],
          err |-> <<>>]

\* updateTargetHandler with the provider URL forwarded whether set or not
UpdateTargetParamAlwaysProvider(input) ==
  LET rt == IF input.ResourceType /= <<>>
              THEN UnmarshalResourceType(input.ResourceType)
              ELSE [ok |-> TRUE, val |-> ResourceTypeUnknown] IN
  IF ~rt.ok
    THEN [param |-> ZeroParam,
          err |-> <<InvalidResourceType(input.ResourceType)>>]
    ELSE [param |-> [ZeroParam EXCEPT !.ResourceType = rt.val,
                                      !.ProviderURL = <<input.ProviderURL>>],
          err |-> <<>>]

\* updateTargetHandler up to the client call
UpdateTargetParam(input) ==
  LET rt == IF input.ResourceType /= <<>>
              THEN UnmarshalResourceType(input.ResourceType)
              ELSE [ok |-> TRUE, val |-> ResourceTypeUnknown] IN
  IF ~rt.ok
    THEN [param |-> ZeroParam,
          err |-> <<InvalidResourceType(input.ResourceType)>>]
    ELSE [param |-> [ZeroParam EXCEPT !.ResourceType = rt.val,
                                      !.ProviderURL = PtrIfSet(input.ProviderURL)],
          err |-> <<>>]

-----------------------------------------------------------------------------
(* The remote API behind the client: the answers of the test server of     *)
(* main_test.go, over a store that keeps what create, update and delete    *)
(* leave (a deleted target is gone: a second delete reports not found).    *)

TargetIDSeq == <<"t1", "t2", "t3">>

\* a second target the remote API starts with
otherTarget ==
  [uuid |-> "t2", scope |-> newRepo, resource_type |-> small, provider_url |-> <<>>]

\* t3 names no target
RemoteInit ==
  [id \in TargetIDs |->
     IF id = "t1" THEN <<testTarget>> ELSE IF id = "t2" THEN <<otherTarget>> ELSE <<>>]

Request(op, id, param) == [op |-> op, id |-> id, param |-> param]

Response(err, targets) == [err |-> err, targets |-> targets]

RECURSIVE ListOf(_, _)
ListOf(r, ids) ==
  IF ids = <<>> THEN <<>> ELSE r[Head(ids)] \o ListOf(r, Tail(ids))

Exists(r, id) == id \in TargetIDs /\ r[id] /= <<>>

\* what the remote API stores for an update: a field of the body that is set
\* and not empty replaces the stored one
Updated(t, param) ==
  [t EXCEPT
     !.resource_type =
        IF param.ResourceType /= ResourceTypeUnknown THEN param.ResourceType ELSE @,
     !.provider_url =
        IF param.ProviderURL /= <<>> /\ param.ProviderURL[1] /= <<>>
          THEN param.ProviderURL[1] ELSE @]

\* what the remote API stores for a create, under the identifier it picks
Created(id, param) ==
  [uuid |-> id, scope |-> param.Scope,
   resource_type |->
     IF param.ResourceType /= ResourceTypeUnknown THEN param.ResourceType ELSE nano,
   provider_url |->
     IF param.ProviderURL /= <<>> THEN param.ProviderURL[1] ELSE <<>>]

\* The answers the remote API may give to a request in state r, each with the
\* state it leaves: [resp, remote].
RemoteAnswers(r, req) ==
  CASE req.op = "ListTarget" ->
         {[resp |-> Response(<<>>, ListOf(r, TargetIDSeq)), remote |-> r]}
    [] req.op = "GetTarget" ->
         IF Exists(r, req.id)
           THEN {[resp |-> Response(<<>>, r[req.id]), remote |-> r]}
           ELSE {[resp |-> Response(<<ErrNotFound>>, <<>>), remote |-> r]}
    [] req.op = "UpdateTarget" ->
         IF Exists(r, req.id)
           THEN LET t == Updated(r[req.id][1], req.param) IN
                {[resp |-> Response(<<>>, <<t>>),
                  remote |-> [r EXCEPT ![req.id] = <<t>>]]}
           ELSE {[resp |-> Response(<<ErrNotFound>>, <<>>), remote |-> r]}
    [] req.op = "DeleteTarget" ->
         IF Exists(r, req.id)
           THEN {[resp |-> Response(<<>>, <<>>),
                  remote |-> [r EXCEPT ![req.id] = <<>>]]}
           ELSE {[resp |-> Response(<<ErrNotFound>>, <<>>), remote |-> r]}
    [] req.op = "CreateTarget" ->
         IF req.param.Scope = <<>>
           THEN {[resp |-> Response(<<ErrScopeMustBeSet>>, <<>>), remote |-> r]}
           ELSE {[resp |-> Response(<<>>, <<Created(id, req.param)>>),
                  remote |-> [r EXCEPT ![id] = <<Created(id, req.param)>>]] :
                   id \in {i \in TargetIDs : r[i] = <<>>}}

\* One round trip of the client: the request does not reach the remote API
\* (fault), or the remote API answers it.
ClientCall(r, req, fault) ==
  IF fault
    THEN {[resp |-> Response(<<ErrTransport>>, <<>>), remote |-> r]}
    ELSE RemoteAnswers(r, req)

-----------------------------------------------------------------------------
(* Encoding *)

\* json.Marshal of a target: the serialization of each of its fields
MarshalTarget(t) ==
  [uuid |-> t.uuid,
   scope |-> JsonMarshalString(t.scope),
   resource_type |-> JsonMarshalString(t.resource_type),
   provider_url |-> JsonMarshalString(t.provider_url)]

RECURSIVE MarshalTargets(_)
MarshalTargets(ts) ==
  IF ts = <<>> THEN <<>> ELSE <<MarshalTarget(Head(ts))>> \o MarshalTargets(Tail(ts))

\* the text of a result: a JSON array or object (json), or a message (msg)
JsonText(array, objects) == [array |-> array, json |-> objects, msg |-> <<>>]

MessageText(segments) == [array |-> FALSE, json |-> <<>>, msg |-> segments]

\* json.Unmarshal of a serialized target, as a caller decodes the payload
UnmarshalTarget(o) ==
  [uuid |-> o.uuid,
   scope |-> JsonUnmarshalString(o.scope).val,
   resource_type |-> JsonUnmarshalString(o.resource_type).val,
   provider_url |-> JsonUnmarshalString(o.provider_url).val]

-----------------------------------------------------------------------------
(* Calls *)

Calls == 1..MaxInFlight

\* The envelope of one call: where its handler stands (pc), what the
\* transport delivered (tool, args), the requests the handler handed to the
\* client (reqs), what the client returned (resp), the stages it went through
\* (trace), what it wrote to the logger (warned), what it returned (result,
\* err: nil is <<>>) and by which return statement (outcome).
IdleCall ==
  [pc |-> "idle", tool |-> "", args |-> NoArgs, reqs |-> <<>>, resp |-> <<>>,
   trace |-> <<>>, warned |-> <<>>, result |-> <<>>, err |-> <<>>, outcome |-> ""]

\* a handler that runs: the transport has handed it the call
Received(tool, args) == [IdleCall EXCEPT !.pc = "running", !.tool = tool, !.args = args]

\* the handler hands req to the client and waits for the round trip
Invoke(call, req) ==
  [call EXCEPT !.pc = "waiting", !.reqs = Append(@, req), !.trace = Append(@, "client")]

\* return nil, nil, fmt.Errorf("invalid resource_type ...") 
FailValidation(call, e) ==
  [call EXCEPT !.pc = "done", !.err = <<e>>, !.outcome = "validation_failure"]

\* a failure swallowed: an empty success is returned in its place
FailWithSwallowed(call, outcome, msg, e) ==
  [call EXCEPT !.pc = "done", !.warned = Append(@, WarnRecord(msg, e)),
               !.result = <<TextResult(JsonText(FALSE, <<>>))>>, !.outcome = "success"]

\* a client failure answered by handing the request to the client again
FailWithRetry(call, outcome, msg, e) ==
  IF outcome = "client_failure"
    THEN Invoke(call, call.reqs[Len(call.reqs)])
    ELSE [call EXCEPT !.pc = "done", !.warned = Append(@, WarnRecord(msg, e)),
                      !.err = <<WrapError(msg, e)>>, !.outcome = outcome]

\* mms.logger.Warn(msg, ...); return nil, nil, fmt.Errorf(msg + ": %w", err)
FailWith(call, outcome, msg, e) ==
  [call EXCEPT !.pc = "done", !.warned = Append(@, WarnRecord(msg, e)),
               !.err = <<WrapError(msg, e)>>, !.outcome = outcome]

\* return &mcp.CallToolResult{...}, nil, nil
Succeed(call, text) ==
  [call EXCEPT !.pc = "done", !.result = <<TextResult(text)>>, !.outcome = "success"]

\* the error of json.Marshal dropped: a result without content is returned
EncodeEmptyOnError(call, msg, text, marshalFails) ==
  LET enc == [call EXCEPT !.trace = Append(@, "encode")] IN
  IF marshalFails
    THEN [enc EXCEPT !.pc = "done", !.result = <<[content |-> <<>>]>>,
                     !.outcome = "success"]
    ELSE Succeed(enc, text)

\* jb, err := json.Marshal(v) and the two ways on from it
Encode(call, msg, text, marshalFails) ==
  LET enc == [call EXCEPT !.trace = Append(@, "encode")] IN
  IF marshalFails
    THEN FailWith(enc, "encoding_failure", msg, ErrMarshal)
    ELSE Succeed(enc, text)

-----------------------------------------------------------------------------
(* The handlers: Start is the handler up to its client call, Finish the *)
(* handler from the client's answer on.                                  *)

listTargetStart(args) ==
  Invoke(Received("list_target", args), Request("ListTarget", NoID, ZeroParam))

listTargetFinish(call, resp, marshalFails) ==
  IF resp.err /= <<>>
    THEN FailWith(call, "client_failure", "failed to list targets", resp.err[1])
    ELSE Encode(call, "failed to marshal targets",
                JsonText(TRUE, MarshalTargets(resp.targets)), marshalFails)

\* the identifier read from a place the calls in flight share
GetTargetRequestShared(input) ==
  LET others == {d \in Calls : calls[d].pc = "waiting"} IN
  Request("GetTarget",
          IF others = {} THEN input.TargetID
          ELSE calls[CHOOSE d \in others : TRUE].args.target_id,
          ZeroParam)

GetTargetRequest(input) == Request("GetTarget", input.TargetID, ZeroParam)

getTargetStart(args) ==
  Invoke(Received("get_target", args), GetTargetRequest(DecodeGetTargetInput(args)))

getTargetFinish(call, resp, marshalFails) ==
  IF resp.err /= <<>>
    THEN FailWith(call, "client_failure", "failed to get target", resp.err[1])
    ELSE Encode(call, "failed to marshal target",
                JsonText(FALSE, MarshalTargets(resp.targets)), marshalFails)

createTargetStart(args) ==
  LET call == [Received("create_target", args) EXCEPT !.trace = <<"validate">>]
      v == CreateTargetParam(DecodeCreateTargetInput(args)) IN
  IF v.err /= <<>>
    THEN FailValidation(call, v.err[1])
    ELSE Invoke(call, Request("CreateTarget", NoID, v.param))

createTargetFinish(call, resp, marshalFails) ==
  IF resp.err /= <<>>
    THEN FailWith(call, "client_failure", "failed to create target", resp.err[1])
    ELSE Encode(call, "failed to marshal target",
                JsonText(FALSE, MarshalTargets(resp.targets)), marshalFails)

updateTargetStart(args) ==
  LET call == [Received("update_target", args) EXCEPT !.trace = <<"validate">>]
      input == DecodeUpdateTargetInput(args)
      v == UpdateTargetParam(input) IN
  IF v.err /= <<>>
    THEN FailValidation(call, v.err[1])
    ELSE Invoke(call, Request("UpdateTarget", input.TargetID, v.param))

updateTargetFinish(call, resp, marshalFails) ==
  IF resp.err /= <<>>
    THEN FailWith(call, "client_failure", "failed to update target", resp.err[1])
    ELSE Encode(call, "failed to marshal target",
                JsonText(FALSE, MarshalTargets(resp.targets)), marshalFails)

\* the confirmation formatted without the identifier
DeletedTextNoID(input) == MessageText(<<"Successfully deleted target ", NoID>>)

\* fmt.Sprintf("Successfully deleted target %s", input.TargetID)
DeletedText(input) == MessageText(<<"Successfully deleted target ", input.TargetID>>)

deleteTargetStart(args) ==
  Invoke(Received("delete_target", args),
         Request("DeleteTarget", DecodeDeleteTargetInput(args).TargetID, ZeroParam))

deleteTargetFinish(call, resp) ==
  IF resp.err /= <<>>
    THEN FailWith(call, "client_failure", "failed to delete target", resp.err[1])
    ELSE Succeed(call, DeletedText(DecodeDeleteTargetInput(call.args)))

\* the tools and their handlers
Start(tool, args) ==
  CASE tool = "list_target" -> listTargetStart(args)
    [] tool = "get_target" -> getTargetStart(args)
    [] tool = "create_target" -> createTargetStart(args)
    [] tool = "update_target" -> updateTargetStart(args)
    [] tool = "delete_target" -> deleteTargetStart(args)

Finish(waiting, resp, marshalFails) ==
  LET call == [waiting EXCEPT !.resp = <<resp>>] IN
  CASE call.tool = "list_target" -> listTargetFinish(call, resp, marshalFails)
    [] call.tool = "get_target" -> getTargetFinish(call, resp, marshalFails)
    [] call.tool = "create_target" -> createTargetFinish(call, resp, marshalFails)
    [] call.tool = "update_target" -> updateTargetFinish(call, resp, marshalFails)
    [] call.tool = "delete_target" -> deleteTargetFinish(call, resp)

-----------------------------------------------------------------------------
(* The process: stdioCmd.Run and runStdioServer *)

Hosts == {"", "myshoes.example", "bad host"}

\* The process as stdioCmd.Run starts it: where it stands (pc), the host and
\* logging options read from the flags, whether the client exists, the tools
\* registered so far, the transport that serves, the exit code, the tool name
\* of each request in flight and the reply sent last.
Boot(host, logCommands) ==
  [pc |-> "start", host |-> host, logCommands |-> logCommands, client |-> FALSE,
   tools |-> <<>>, transport |-> "none", exit |-> 0,
   requests |-> [c \in Calls |-> ""], sent |-> <<>>]

\* the host never checked
HostMissingNever(host) == FALSE

\* if host == "" { return fmt.Errorf("host is required") }
HostMissing(host) == host = ""

\* myshoesapi.NewClient(host, ...) returns an error
NewClientFails(host) == host = "bad host"

\* logger.Error("failed to run stdio server", ...); os.Exit(1)
Exit(s) == [s EXCEPT !.pc = "exited", !.exit = 1]

\* update_target added with the handler of create_target
RegistryCrossed ==
  << [name |-> "list_target", handler |-> "listTargetHandler"],
     [name |-> "get_target", handler |-> "getTargetHandler"],
     [name |-> "create_target", handler |-> "createTargetHandler"],
     [name |-> "update_target", handler |-> "createTargetHandler"],
     [name |-> "delete_target", handler |-> "deleteTargetHandler"] >>

\* the AddTool calls of runStdioServer, in their order
Registry ==
  << [name |-> "list_target", handler |-> "listTargetHandler"],
     [name |-> "get_target", handler |-> "getTargetHandler"],
     [name |-> "create_target", handler |-> "createTargetHandler"],
     [name |-> "update_target", handler |-> "updateTargetHandler"],
     [name |-> "delete_target", handler |-> "deleteTargetHandler"] >>

\* the stdio transport, wrapped in the logging transport when asked for
Transport(logCommands) == IF logCommands THEN "logging(stdio)" ELSE "stdio"

\* the process once runStdioServer has reached myshoesServer.Run
Serving(host, logCommands) ==
  [Boot(host, logCommands) EXCEPT !.pc = "serving", !.client = TRUE,
                                  !.tools = Registry,
                                  !.transport = Transport(logCommands)]

\* the names registered in tools
Registered(tools) == {tools[i].name : i \in 1..Len(tools)}

\* the handler the server holds for name: the one added last under it
HandlerFor(tools, name) ==
  LET last == CHOOSE i \in 1..Len(tools) :
                /\ tools[i].name = name
                /\ \A j \in 1..Len(tools) : tools[j].name = name => j <= i IN
  tools[last].handler

\* a handler run on the arguments of a call, up to its client call
RunHandler(handler, args) ==
  CASE handler = "listTargetHandler" -> listTargetStart(args)
    [] handler = "getTargetHandler" -> getTargetStart(args)
    [] handler = "createTargetHandler" -> createTargetStart(args)
    [] handler = "updateTargetHandler" -> updateTargetStart(args)
    [] handler = "deleteTargetHandler" -> deleteTargetStart(args)

-----------------------------------------------------------------------------
(* Inputs *)

huge == <<"h", "u", "g", "e">>
\* small, its second letter spelled as a JSON escape: s m a l l
escapedSmall == <<"s", BS, "u", "0", "0", "6", "d", "a", "l", "l">>
\* a literal holding a quote
quoteInside == <<"a", DQ, "b">>
\* a literal ending in a backslash
trailingBackslash == nano \o <<BS>>

ResourceTypeInputs ==
  ResourceTypes \cup {<<>>, huge, escapedSmall, quoteInside, trailingBackslash}

Optional(S) == {<<>>} \cup {<<x>> : x \in S}

ListArgs == {NoArgs}

GetArgs == {[NoArgs EXCEPT !.target_id = id] : id \in TargetIDs}

DeleteArgs == GetArgs

CreateArgs ==
  {[NoArgs EXCEPT !.scope = s, !.resource_type = rt, !.provider_url = p, !.runner_user = u] :
     s \in Optional({<<>>, newRepo}), rt \in Optional(ResourceTypeInputs),
     p \in Optional({<<>>, newProviderURL}), u \in Optional({<<>>, runner})}

UpdateArgs ==
  {[NoArgs EXCEPT !.target_id = id, !.resource_type = rt, !.provider_url = p] :
     id \in TargetIDs, rt \in Optional(ResourceTypeInputs),
     p \in Optional({<<>>, newProviderURL})}

\* the updates of the concurrent runs
ConcUpdateArgs ==
  {[NoArgs EXCEPT !.target_id = id, !.resource_type = rt, !.provider_url = p] :
     id \in TargetIDs, rt \in Optional({medium, huge}),
     p \in Optional({newProviderURL})}

-----------------------------------------------------------------------------
(* Actions *)

\* the process serves, started with a host and the default of the logging flag
Init ==
  /\ calls = [c \in Calls |-> IdleCall]
  /\ remote = RemoteInit
  /\ issued = 0
  /\ server = Serving("myshoes.example", FALSE)

\* the transport hands a call to its handler, which runs to its client call
Begin(c, started) ==
  /\ server.pc = "serving"
  /\ calls[c].pc = "idle"
  /\ calls' = [calls EXCEPT ![c] = started]
  /\ issued' = issued + 1
  /\ UNCHANGED <<remote, server>>

listTargetBegin(c) ==
  /\ issued < MaxCalls
  /\ \E args \in ListArgs : Begin(c, listTargetStart(args))

getTargetBegin(c) ==
  /\ issued < MaxCalls
  /\ \E args \in GetArgs : Begin(c, getTargetStart(args))

createTargetBegin(c) ==
  /\ issued < MaxCalls
  /\ \E args \in CreateArgs : Begin(c, createTargetStart(args))

updateTargetBegin(c) ==
  /\ issued < MaxCalls
  /\ \E args \in UpdateArgs : Begin(c, updateTargetStart(args))

deleteTargetBegin(c) ==
  /\ issued < MaxCalls
  /\ \E args \in DeleteArgs : Begin(c, deleteTargetStart(args))

\* the client's round trip ends and the handler runs to its return
Complete(c) ==
  /\ calls[c].pc = "waiting"
  /\ \E fault \in BOOLEAN, marshalFails \in BOOLEAN :
       \E a \in ClientCall(remote, calls[c].reqs[Len(calls[c].reqs)], fault) :
          /\ calls' = [calls EXCEPT ![c] = Finish(calls[c], a.resp, marshalFails)]
          /\ remote' = a.remote
  /\ UNCHANGED <<issued, server>>

listTargetComplete(c) ==
  /\ calls[c].tool = "list_target"
  /\ Complete(c)

getTargetComplete(c) ==
  /\ calls[c].tool = "get_target"
  /\ Complete(c)

createTargetComplete(c) ==
  /\ calls[c].tool = "create_target"
  /\ Complete(c)

updateTargetComplete(c) ==
  /\ calls[c].tool = "update_target"
  /\ Complete(c)

deleteTargetComplete(c) ==
  /\ calls[c].tool = "delete_target"
  /\ Complete(c)

\* the transport sends the handler's return upstream; the envelope is gone
Return(c) ==
  /\ calls[c].pc = "done"
  /\ calls' = [calls EXCEPT ![c] = IdleCall]
  /\ UNCHANGED <<remote, issued, server>>

\* the slot of the calls issued one after the other: the first
SeqSlot == CHOOSE c \in Calls : \A d \in Calls : c <= d

\* calls issued one after the other, with every input
Next ==
  \/ listTargetBegin(SeqSlot)
  \/ getTargetBegin(SeqSlot)
  \/ createTargetBegin(SeqSlot)
  \/ updateTargetBegin(SeqSlot)
  \/ deleteTargetBegin(SeqSlot)
  \/ listTargetComplete(SeqSlot)
  \/ getTargetComplete(SeqSlot)
  \/ createTargetComplete(SeqSlot)
  \/ updateTargetComplete(SeqSlot)
  \/ deleteTargetComplete(SeqSlot)
  \/ Return(SeqSlot)

Spec == Init /\ [][Next]_vars

\* Slot c is the next free one (the slots are interchangeable), and no other
\* call that is in flight or has run names the identifier of args.
OwnIdentifier(c, args) ==
  /\ \A d \in Calls : d < c => calls[d].pc /= "idle"
  /\ \A d \in Calls \ {c} : calls[d].pc = "idle" \/ calls[d].args.target_id /= args.target_id

getTargetBeginConc(c) ==
  \E args \in GetArgs : OwnIdentifier(c, args) /\ Begin(c, getTargetStart(args))

updateTargetBeginConc(c) ==
  \E args \in ConcUpdateArgs : OwnIdentifier(c, args) /\ Begin(c, updateTargetStart(args))

deleteTargetBeginConc(c) ==
  \E args \in DeleteArgs : OwnIdentifier(c, args) /\ Begin(c, deleteTargetStart(args))

\* get, update and delete calls against distinct identifiers, in flight
\* together in any interleaving, each slot used once
NextConc ==
  \E c \in Calls :
    \/ getTargetBeginConc(c)
    \/ updateTargetBeginConc(c)
    \/ deleteTargetBeginConc(c)
    \/ getTargetComplete(c)
    \/ updateTargetComplete(c)
    \/ deleteTargetComplete(c)

SpecConc == Init /\ [][NextConc]_vars

-----------------------------------------------------------------------------
(* The process from its start: startup, then calls by tool name *)

InitStart ==
  /\ calls = [c \in Calls |-> IdleCall]
  /\ remote = RemoteInit
  /\ issued = 0
  /\ \E host \in Hosts, logCommands \in BOOLEAN : server = Boot(host, logCommands)

\* runStdioServer: the host is read and checked
CheckHost ==
  /\ server.pc = "start"
  /\ server' = IF HostMissing(server.host) THEN Exit(server)
                ELSE [server EXCEPT !.pc = "host read"]
  /\ UNCHANGED <<calls, remote, issued>>

\* runStdioServer: the client is created
NewClient ==
  /\ server.pc = "host read"
  /\ server' = IF NewClientFails(server.host) THEN Exit(server)
                ELSE [server EXCEPT !.pc = "registering", !.client = TRUE]
  /\ UNCHANGED <<calls, remote, issued>>

\* runStdioServer: the next tool is added to the server
AddTool ==
  /\ server.pc = "registering"
  /\ Len(server.tools) < Len(Registry)
  /\ server' = [server EXCEPT !.tools = Append(@, Registry[Len(server.tools) + 1])]
  /\ UNCHANGED <<calls, remote, issued>>

\* runStdioServer: the transport is chosen and the server runs on it
Serve ==
  /\ server.pc = "registering"
  /\ Len(server.tools) = Len(Registry)
  /\ server' = [server EXCEPT !.pc = "serving",
                               !.transport = Transport(server.logCommands)]
  /\ UNCHANGED <<calls, remote, issued>>

\* the arguments the calls by name come with
ArgsByName(name) ==
  CASE name = "list_target" -> ListArgs
    [] name = "get_target" -> GetArgs
    [] name = "create_target" ->
         {[NoArgs EXCEPT !.scope = sc, !.resource_type = <<rt>>] :
            sc \in Optional({newRepo}), rt \in {small, huge}}
    [] name = "update_target" -> ConcUpdateArgs
    [] name = "delete_target" -> DeleteArgs

\* The transport receives a call of a registered tool and the server runs the
\* handler it holds for that name, up to the handler's client call (a name
\* that is not registered is turned down by the server library, outside the
\* handlers).
CallTool(c) ==
  /\ server.pc = "serving"
  /\ issued < MaxCalls
  /\ calls[c].pc = "idle"
  /\ \E name \in Registered(server.tools) :
       \E args \in ArgsByName(name) :
          /\ calls' = [calls EXCEPT ![c] = RunHandler(HandlerFor(server.tools, name), args)]
          /\ server' = [server EXCEPT !.requests[c] = name]
  /\ issued' = issued + 1
  /\ UNCHANGED remote

\* the server sends what the handler returned as the reply to the call
Reply(c) ==
  /\ calls[c].pc = "done"
  /\ server.requests[c] /= ""
  /\ server' = [server EXCEPT
                  !.requests[c] = "",
                  !.sent = <<[name |-> server.requests[c],
                              result |-> calls[c].result, err |-> calls[c].err]>>]
  /\ calls' = [calls EXCEPT ![c] = IdleCall]
  /\ UNCHANGED <<remote, issued>>

NextStart ==
  \/ CheckHost
  \/ NewClient
  \/ AddTool
  \/ Serve
  \/ CallTool(SeqSlot)
  \/ listTargetComplete(SeqSlot)
  \/ getTargetComplete(SeqSlot)
  \/ createTargetComplete(SeqSlot)
  \/ updateTargetComplete(SeqSlot)
  \/ deleteTargetComplete(SeqSlot)
  \/ Reply(SeqSlot)

SpecStart == InitStart /\ [][NextStart]_vars

-----------------------------------------------------------------------------
(* Properties *)

Started(c) == calls[c].pc /= "idle"

Done(c) == calls[c].pc = "done"

\* the string a call gave for an argument ("" when it gave none)
ArgScope(c) == FieldOf(calls[c].args.scope)
ArgResourceType(c) == FieldOf(calls[c].args.resource_type)
ArgProviderURL(c) == FieldOf(calls[c].args.provider_url)

\* C1: a create_target call whose scope is the empty string ends in a
\* validation failure and hands no request to the client.
C1_EmptyScopeFailsValidation ==
  \A c \in Calls :
    (calls[c].tool = "create_target" /\ ArgScope(c) = <<>>) =>
      /\ calls[c].reqs = <<>>
      /\ Done(c) => calls[c].outcome = "validation_failure"

\* C2: for create_target (any resource_type) and update_target (any non-empty
\* resource_type), a literal of the enumeration is accepted and reaches the
\* client as it is; any other string fails with an error whose message holds
\* the rejected literal, and no request is handed to the client.
C2_ResourceTypeValidated ==
  \A c \in Calls :
    (/\ calls[c].tool \in {"create_target", "update_target"}
     /\ calls[c].tool = "update_target" => ArgResourceType(c) /= <<>>) =>
      IF ArgResourceType(c) \in ResourceTypes
        THEN /\ Len(calls[c].reqs) = 1
             /\ calls[c].reqs[1].param.ResourceType = ArgResourceType(c)
        ELSE /\ calls[c].reqs = <<>>
             /\ Done(c)
             /\ calls[c].err /= <<>>
             /\ Contains(calls[c].err[1].lit, ArgResourceType(c))

\* C3: the parameters update_target hands to the client hold a resource type
\* exactly when the call gave a non-empty one, a provider URL exactly when the
\* call gave a non-empty one (and then that one), and never a scope or a
\* runner user; with no optional field every field is empty.
C3_UpdateSendsOnlySuppliedFields ==
  \A c \in Calls :
    calls[c].tool = "update_target" =>
      \A i \in 1..Len(calls[c].reqs) :
        LET p == calls[c].reqs[i].param IN
        /\ calls[c].reqs[i].op = "UpdateTarget"
        /\ (p.ResourceType /= ResourceTypeUnknown) <=> (ArgResourceType(c) /= <<>>)
        /\ (p.ProviderURL /= <<>>) <=> (ArgProviderURL(c) /= <<>>)
        /\ p.ProviderURL /= <<>> => p.ProviderURL[1] = ArgProviderURL(c)
        /\ p.Scope = <<>>
        /\ p.RunnerUser = <<>>
        /\ (ArgResourceType(c) = <<>> /\ ArgProviderURL(c) = <<>>) => p = ZeroParam

\* an update with no optional field has reached the client and succeeded
C3_Witness ==
  \E c \in Calls :
    /\ calls[c].tool = "update_target"
    /\ calls[c].args.resource_type = <<>>
    /\ calls[c].args.provider_url = <<>>
    /\ calls[c].outcome = "success"
    /\ calls[c].reqs = <<Request("UpdateTarget", "t1", ZeroParam)>>
    /\ remote = RemoteInit

\* the parameters create_target builds from the arguments args
ParamOf(args) == CreateTargetParam(DecodeCreateTargetInput(args)).param

\* C4: a create_target call that gives provider_url or runner_user as an empty
\* string hands the client parameters that differ from those of the same call
\* with the field left out.
C4_OmittedDiffersFromEmpty ==
  \A c \in Calls :
    (calls[c].tool = "create_target" /\ calls[c].reqs /= <<>>) =>
      /\ calls[c].args.provider_url = <<<<>>>> =>
           calls[c].reqs[1].param /= ParamOf([calls[c].args EXCEPT !.provider_url = <<>>])
      /\ calls[c].args.runner_user = <<<<>>>> =>
           calls[c].reqs[1].param /= ParamOf([calls[c].args EXCEPT !.runner_user = <<>>])

\* C5: a get_target, update_target or delete_target call whose identifier
\* names no target of the remote API when the client's round trip ends
\* returns a failure and no result.
C5_NotFoundIsFailure ==
  [][\A c \in Calls :
       (/\ calls[c].tool \in {"get_target", "update_target", "delete_target"}
        /\ calls[c].pc = "waiting"
        /\ ~Exists(remote, calls[c].reqs[1].id)
        /\ calls'[c].pc = "done") =>
         /\ calls'[c].err /= <<>>
         /\ calls'[c].result = <<>>
         /\ calls'[c].outcome = "client_failure"]_vars

\* an update of an identifier the remote API does not know has failed
C5_Witness ==
  \E c \in Calls :
    /\ Done(c)
    /\ calls[c].tool = "update_target"
    /\ calls[c].resp = <<Response(<<ErrNotFound>>, <<>>)>>
    /\ calls[c].err /= <<>>
    /\ calls[c].result = <<>>

\* t ends with the segments of s
EndsWith(t, s) == Len(s) <= Len(t) /\ SubSeq(t, Len(t) - Len(s) + 1, Len(t)) = s

\* C6: every failed call, whatever the kind of its failure, has written a
\* warning holding the text of the underlying error to the logger.
C6_EveryFailureIsLogged ==
  \A c \in Calls :
    (Done(c) /\ calls[c].err /= <<>>) =>
      \E i \in 1..Len(calls[c].warned) :
        /\ calls[c].warned[i].level = "WARN"
        /\ EndsWith(calls[c].err[1].text, calls[c].warned[i].error)

StageOrder(stage) ==
  CASE stage = "validate" -> 1 [] stage = "client" -> 2 [] stage = "encode" -> 3

\* C7: a call goes through validate, client call and encode in that order and
\* stops at the first failure: it hands at most one request to the client,
\* none after a validation failure, and ends in exactly one of validation
\* failure, client failure, encoding failure and success.
C7_LinearNoRetry ==
  \A c \in Calls :
    LET k == calls[c] IN
    /\ Len(k.reqs) <= 1
    /\ \A i, j \in 1..Len(k.trace) : i < j => StageOrder(k.trace[i]) < StageOrder(k.trace[j])
    /\ Len(k.reqs) = Cardinality({i \in 1..Len(k.trace) : k.trace[i] = "client"})
    /\ ~Done(c) => (k.outcome = "" /\ k.result = <<>> /\ k.err = <<>>)
    /\ Done(c) =>
         /\ k.outcome \in {"validation_failure", "client_failure", "encoding_failure", "success"}
         /\ k.outcome = "validation_failure" =>
              (k.reqs = <<>> /\ k.trace = <<"validate">> /\ k.err /= <<>> /\ k.result = <<>>)
         /\ k.outcome = "client_failure" =>
              (/\ k.trace[Len(k.trace)] = "client"
               /\ k.resp[1].err /= <<>> /\ k.err /= <<>> /\ k.result = <<>>)
         /\ k.outcome = "encoding_failure" =>
              (/\ k.trace[Len(k.trace)] = "encode"
               /\ k.resp[1].err = <<>> /\ k.err /= <<>> /\ k.result = <<>>)
         /\ k.outcome = "success" =>
              (k.resp[1].err = <<>> /\ k.err = <<>> /\ k.result /= <<>>)

\* a call has failed in encoding, after one request to the client
C7_Witness ==
  \E c \in Calls :
    /\ Done(c)
    /\ calls[c].outcome = "encoding_failure"
    /\ calls[c].trace = <<"validate", "client", "encode">>
    /\ Len(calls[c].reqs) = 1

\* the ways call k ends when it runs alone against the remote API as it
\* started, the client's round trip and the encoding faring as they did for k
AloneRuns(k) ==
  LET s == Start(k.tool, k.args) IN
  IF s.pc = "done" THEN {s}
  ELSE {Finish(s, a.resp, k.outcome = "encoding_failure") :
          a \in ClientCall(RemoteInit, s.reqs[1],
                           k.resp = <<Response(<<ErrTransport>>, <<>>)>>)}

\* C8: with get, update and delete calls against distinct identifiers in
\* flight together, every request a call hands to the client names the call's
\* own identifier, and a call ends as it would have ended alone.
C8_ConcurrentCallsIndependent ==
  \A c \in Calls :
    Started(c) =>
      /\ \A i \in 1..Len(calls[c].reqs) : calls[c].reqs[i].id = calls[c].args.target_id
      /\ Done(c) => calls[c] \in AloneRuns(calls[c])

\* a get, an update and a delete have run together; one failed, one succeeded
C8_Witness ==
  /\ \A c \in 1..3 : Done(c)
  /\ {calls[c].tool : c \in 1..3} = {"get_target", "update_target", "delete_target"}
  /\ \E c, d \in 1..3 : calls[c].outcome = "client_failure" /\ calls[d].outcome = "success"
  /\ \E c \in 1..3 : calls[c].outcome = "validation_failure"

\* C9: delete_target returns its confirmation only when the client's
\* DeleteTarget for the call's identifier succeeded, and the confirmation
\* then holds the identifier the call gave as target_id.
C9_DeleteConfirmsOwnIdentifier ==
  \A c \in Calls :
    (calls[c].tool = "delete_target" /\ Done(c) /\ calls[c].result /= <<>>) =>
      /\ calls[c].reqs = <<Request("DeleteTarget", calls[c].args.target_id, ZeroParam)>>
      /\ calls[c].resp = <<Response(<<>>, <<>>)>>
      /\ calls[c].result[1].content =
           <<MessageText(<<"Successfully deleted target ", calls[c].args.target_id>>)>>

\* a delete has succeeded and the remote API no longer knows the identifier
C9_Witness ==
  \E c \in Calls :
    /\ calls[c].tool = "delete_target"
    /\ calls[c].outcome = "success"
    /\ calls[c].args.target_id = "t2"
    /\ ~Exists(remote, "t2")

\* C10: a create_target call with a non-empty scope and a resource type of the
\* enumeration that the remote API accepts has handed the client that scope
\* and resource type, and its payload is the serialization of the target the
\* client returned, which decodes to that scope and resource type.
C10_CreateRoundTrip ==
  \A c \in Calls :
    (/\ calls[c].tool = "create_target"
     /\ ArgScope(c) /= <<>>
     /\ ArgResourceType(c) \in ResourceTypes
     /\ Done(c)
     /\ calls[c].resp[1].err = <<>>
     /\ calls[c].outcome /= "encoding_failure") =>
      /\ calls[c].reqs[1].param.Scope = ArgScope(c)
      /\ calls[c].reqs[1].param.ResourceType = ArgResourceType(c)
      /\ calls[c].outcome = "success"
      /\ calls[c].result[1].content =
           <<JsonText(FALSE, MarshalTargets(calls[c].resp[1].targets))>>
      /\ Len(calls[c].result[1].content[1].json) = 1
      /\ UnmarshalTarget(calls[c].result[1].content[1].json[1]).scope = ArgScope(c)
      /\ UnmarshalTarget(calls[c].result[1].content[1].json[1]).resource_type = ArgResourceType(c)

\* a create of scope o/r and type small has succeeded
C10_Witness ==
  \E c \in Calls :
    /\ calls[c].tool = "create_target"
    /\ calls[c].outcome = "success"
    /\ ArgScope(c) = newRepo
    /\ ArgResourceType(c) = small
    /\ UnmarshalTarget(calls[c].result[1].content[1].json[1]).resource_type = small

\* the errors the client may return: not found, a rejection by the remote
\* API's own validation, a transport failure
ClientErrors == {ErrNotFound, ErrScopeMustBeSet, ErrTransport}

\* C11: the failure a handler reports for a client error holds the text of
\* the client's error, so that no other client error of the same operation
\* gives the same failure.
C11_ClientErrorKept ==
  \A c \in Calls :
    (Done(c) /\ calls[c].resp /= <<>> /\ calls[c].resp[1].err /= <<>>) =>
      LET e == calls[c].resp[1].err[1]
          reported == calls[c].err IN
      /\ reported /= <<>>
      /\ Len(reported[1].text) > Len(e.text)
      /\ EndsWith(reported[1].text, e.text)
      /\ \A other \in ClientErrors \ {e} :
           FailWith(calls[c], "client_failure", reported[1].text[1], other).err /= reported

\* a create has been rejected by the remote API's own validation and is
\* reported with the client's text
C11_Witness ==
  \E c \in Calls :
    /\ Done(c)
    /\ calls[c].tool = "create_target"
    /\ calls[c].resp = <<Response(<<ErrScopeMustBeSet>>, <<>>)>>
    /\ calls[c].err = <<[text |-> <<"failed to create target", "scope must be set">>,
                         lit |-> <<>>]>>

\* C12: a call that has returned has returned a result or a failure and not
\* both; a result holds one text payload; a failure of the serialization
\* after the client succeeded is a failure, never a result.
C12_ResultXorFailure ==
  \A c \in Calls :
    Done(c) =>
      /\ (calls[c].result /= <<>>) <=> (calls[c].err = <<>>)
      /\ Len(calls[c].result) <= 1
      /\ Len(calls[c].err) <= 1
      /\ calls[c].result /= <<>> =>
           /\ Len(calls[c].result[1].content) = 1
           /\ calls[c].outcome = "success"
           /\ \/ calls[c].result[1].content[1].array
              \/ calls[c].result[1].content[1].json /= <<>>
              \/ calls[c].result[1].content[1].msg /= <<>>
      /\ calls[c].outcome = "encoding_failure" =>
           /\ calls[c].resp[1].err = <<>>
           /\ calls[c].result = <<>>
           /\ calls[c].err /= <<>>

\* a get whose target the client returned has failed in serialization
C12_Witness ==
  \E c \in Calls :
    /\ Done(c)
    /\ calls[c].tool = "get_target"
    /\ calls[c].resp = <<Response(<<>>, <<testTarget>>)>>
    /\ calls[c].outcome = "encoding_failure"
    /\ calls[c].result = <<>>
    /\ calls[c].err /= <<>>

\* C13: with an empty host the process goes from its start to an exit with a
\* code other than zero only: no client is created, no tool registered, no
\* transport serves and no call is handled.
C13_EmptyHostExits ==
  server.host = "" =>
    /\ server.pc \in {"start", "exited"}
    /\ server.pc = "exited" => server.exit /= 0
    /\ ~server.client
    /\ server.tools = <<>>
    /\ server.transport = "none"
    /\ issued = 0
    /\ \A c \in Calls : calls[c] = IdleCall /\ server.requests[c] = ""
    /\ server.sent = <<>>

\* the process has exited on an empty host
C13_Witness ==
  /\ server.host = ""
  /\ server.pc = "exited"
  /\ server.exit = 1

\* the handler a tool name belongs to
OwnHandler(name) ==
  CASE name = "list_target" -> "listTargetHandler"
    [] name = "get_target" -> "getTargetHandler"
    [] name = "create_target" -> "createTargetHandler"
    [] name = "update_target" -> "updateTargetHandler"
    [] name = "delete_target" -> "deleteTargetHandler"

\* the first request the handler of a tool hands to the client
OwnOperation(name) ==
  CASE name = "list_target" -> "ListTarget"
    [] name = "get_target" -> "GetTarget"
    [] name = "create_target" -> "CreateTarget"
    [] name = "update_target" -> "UpdateTarget"
    [] name = "delete_target" -> "DeleteTarget"

\* the registered tools are the five, each once, each with its own handler;
\* a call in flight was started by the handler of its name and no other
RoutedToOwnHandler ==
  /\ server.pc = "serving" =>
       /\ Registered(server.tools) =
            {"list_target", "get_target", "create_target", "update_target", "delete_target"}
       /\ Len(server.tools) = 5
       /\ \A i \in 1..Len(server.tools) :
            server.tools[i].handler = OwnHandler(server.tools[i].name)
  /\ \A c \in Calls :
       server.requests[c] /= "" =>
         /\ Started(c)
         /\ calls[c].tool = server.requests[c]
         /\ \A i \in 1..Len(calls[c].reqs) :
              calls[c].reqs[i].op = OwnOperation(server.requests[c])
         /\ calls[c].pc = "waiting" =>
              calls[c] = RunHandler(OwnHandler(server.requests[c]), calls[c].args)

\* a reply is what the handler returned, under the name of its call
RepliedUnchanged ==
  \A c \in Calls :
    (Done(c) /\ server.requests[c] /= "" /\ calls'[c].pc = "idle") =>
      server'.sent = <<[name |-> server.requests[c],
                        result |-> calls[c].result, err |-> calls[c].err]>>

\* C14: after a successful startup the registered tools are exactly
\* list_target, get_target, create_target, update_target and delete_target,
\* each bound to its own handler; a call of a registered name is run by that
\* handler and no other, and what the handler returns is sent unchanged.
C14_ToolsRouted == []RoutedToOwnHandler /\ [][RepliedUnchanged]_vars

\* the reply to an update_target call has been sent: the handler's result
C14_Witness ==
  /\ server.pc = "serving"
  /\ server.sent /= <<>>
  /\ server.sent[1].name = "update_target"
  /\ server.sent[1].result /= <<>>
  /\ server.sent[1].err = <<>>

====
